---- MODULE Spec2Model ----
(***************************************************************************)
(* State-machine model of the MySQL backup CLI (mysql_backup_cli/main.py   *)
(* and its typer twin mysql_backup_cli/cli/app.py): monthly series of a    *)
(* full backup plus incrementals, binlog shipping with an index, and the   *)
(* restore / PITR flow.  The two files hold the same command logic; line   *)
(* numbers in comments refer to main.py unless stated otherwise.           *)
(*                                                                         *)
(* Time is an integer number of seconds.  A model month is one hour long   *)
(* (SecondsPerMonth) so that a month rollover is reachable with a small    *)
(* clock; the code depends on the month only through strftime("%Y-%m").    *)
(***************************************************************************)
EXTENDS Integers, Sequences, FiniteSets, TLC

VARIABLES
    now,     \* the wall clock read by dt.datetime.utcnow(), in seconds
    files,   \* the files on disk: path -> [doc, complete]
    dirs,    \* the directories on disk (leaf directories the code names)
    last,    \* what the running invocation did: inputs, exit code, tool steps
    writer,  \* the position of an invocation that is inside write_json / write_text
    source,  \* cfg.binlog_source_dir: the server's binlog segments, by number
    procs    \* the invocations that run side by side, each at its own position

vars == <<now, files, dirs, last, writer, source, procs>>

---------------------------------------------------------------------------
(* Bounds of the model *)

\* most incremental storage directories on disk
MaxIncr == 3
\* most records the chain manifests may hold together
MaxRecords == 4

(* Calendar arithmetic of datetime *)
SecondsPerMinute == 60
MinutesPerHour == 60
SecondsPerHour == SecondsPerMinute * MinutesPerHour
SecondsPerMonth == 1 * SecondsPerHour

\* The instants at which the clock is read: the quarters of an hour
ClockMarks == {m * 15 * SecondsPerMinute : m \in 0 .. 3}

\* The series (YYYY-MM) the clock reaches
Months == {t \div SecondsPerMonth : t \in ClockMarks}

\* strftime("%Y-%m")
MonthOf(t) == t \div SecondsPerMonth

\* now_utc_iso(): strftime(ISO_Z), a stamp with minute precision (seconds dropped)
now_utc_iso(t) == t \div SecondsPerMinute

\* dt.datetime.strptime(name, ISO_Z): the instant a stamp names, at second 0
strptime_iso(ts) == ts * SecondsPerMinute

---------------------------------------------------------------------------
(* Layout: paths as records [area, ym, name, ts] *)

NoTs == -1

Path(area, ym, name, ts) == [area |-> area, ym |-> ym, name |-> name, ts |-> ts]

series_dir(ym) == Path("series", ym, "", NoTs)
base_raw(ym) == Path("series", ym, "base/raw", NoTs)
base_meta(ym) == Path("series", ym, "base/meta.json", NoTs)
base_xb_info(ym) == Path("series", ym, "base/xtrabackup_binlog_info", NoTs)
incr_dir(ym) == Path("series", ym, "incr", NoTs)
incr_raw(ym, ts) == Path("series", ym, "incr/raw", ts)
incr_meta(ym, ts) == Path("series", ym, "incr/meta.json", ts)
manifest(ym) == Path("series", ym, "manifest.json", NoTs)
binlog_month(ym) == Path("binlogs", ym, "", NoTs)
binlog_index(ym) == Path("binlogs", ym, "index.json", NoTs)

\* dest_month / gz_name: the archived artifact of the segment numbered seq
dst_gz(ym, seq) == Path("binlogs", ym, "mysql-bin.gz", seq)

\* Path.with_suffix(".tmp")
SuffixTmp(name) ==
    CASE name = "manifest.json" -> "manifest.tmp"
      [] name = "index.json" -> "index.tmp"
      [] name = "base/meta.json" -> "base/meta.tmp"
      [] OTHER -> "tmp"

\* a temporary name that is the target itself: the document written in place
TmpInPlace(path) == path

with_suffix_tmp(path) == [path EXCEPT !.name = SuffixTmp(path.name)]

---------------------------------------------------------------------------
(* File-system helpers *)

\* the ancestors mkdir(parents=True) creates along with a leaf directory
Parents(p) ==
    CASE p.name = "base/raw" -> {series_dir(p.ym)}
      [] p.name = "incr/raw" -> {series_dir(p.ym), incr_dir(p.ym)}
      [] OTHER -> {}

\* ensure_dir(p): p.mkdir(parents=True, exist_ok=True)
ensure_dir(d, p) == d \cup {p} \cup Parents(p)

Exists(f, p) == p \in DOMAIN f

Put(f, p, c) == [q \in (DOMAIN f) \cup {p} |-> IF q = p THEN c ELSE f[q]]

Remove(f, p) == [q \in (DOMAIN f) \ {p} |-> f[q]]

Complete(obj) == [doc |-> obj, complete |-> TRUE]
Partial(obj) == [doc |-> obj, complete |-> FALSE]

\* read_json(path, default): the default when the file is missing (main.py also
\* when it does not parse)
read_json(f, p, default) ==
    IF ~Exists(f, p) THEN default
    ELSE IF ~f[p].complete THEN default
    ELSE f[p].doc

\* Path.write_text: open for writing (truncate), then write and close
write_text_open(f, p, obj) == Put(f, p, Partial(obj))
write_text_close(f, p, obj) == Put(f, p, Complete(obj))
write_text(f, p, obj) == write_text_close(write_text_open(f, p, obj), p, obj)

\* Path.replace: rename over the target
replace(f, src, dst) == Remove(Put(f, dst, f[src]), src)

\* write_json(path, obj): write the temporary file, then rename it over path
write_json(f, p, obj) ==
    replace(write_text(f, with_suffix_tmp(p), obj), with_suffix_tmp(p), p)

\* sh(cmd, exec_): dry-run prints and returns 0; otherwise the tool's exit code
sh(rc, exec_) == IF exec_ THEN rc ELSE 0

ToolRcs == {0, 2}
NoSeries == -1
\* the --series values tried: none, a month of the clock, the month after
SeriesChoices == {NoSeries} \cup Months \cup {m + 1 : m \in Months}

\* series or utcnow().strftime("%Y-%m")
SeriesOr(series, t) == IF series = NoSeries THEN MonthOf(t) ELSE series

Meta(type, ts, ym) == [type |-> type, ts |-> ts, series |-> ym]

NoSteps == <<>>

\* an invocation of an external tool: what it does, on which stamp or
\* segment, and its exit code
Step(op, ts, rc) == [op |-> op, ts |-> ts, rc |-> rc]

\* no --stop-datetime was put on a command line
NoStop == <<>>

\* no file was read
NoPath == Path("", NoSeries, "", NoTs)

\* what a command invocation did
Outcome(cmd, exec_, ym, rc) ==
    [cmd |-> cmd, exec |-> exec_, ym |-> ym, rc |-> rc,
     target |-> 0, work |-> FALSE, steps |-> NoSteps, need_pitr |-> FALSE,
     info |-> "n/a", cutover |-> <<>>, sources |-> <<>>,
     time |-> 0, round |-> 0, stop |-> NoStop, marker |-> NoPath,
     workdir |-> NoPath]

Idle == Outcome("none", FALSE, NoSeries, 0)

\* no invocation runs beside another
NoProcs == <<>>

NoWriter ==
    [state |-> "idle", path |-> Path("", NoSeries, "", NoTs), obj |-> <<>>,
     after |-> "none", ym |-> NoSeries, ts |-> NoTs]

\* the stamps of the incremental storage directories of a series
IncrStamps(d, ym) == {p.ts : p \in {q \in d : q.name = "incr/raw" /\ q.ym = ym}}

Manifest(ym) == read_json(files, manifest(ym), <<>>)

RECURSIVE SumLen(_)
SumLen(S) == IF S = {} THEN 0 ELSE LET m == CHOOSE x \in S : TRUE
                                  IN  Len(Manifest(m)) + SumLen(S \ {m})

\* the records held by all chain manifests together
Records == SumLen({q.ym : q \in {r \in DOMAIN files : r.name = "manifest.json"}})

IncrDirs == {p \in dirs : p.name = "incr/raw"}

---------------------------------------------------------------------------
(* Backup commands *)

Init ==
    /\ now = 0
    /\ files = <<>>
    /\ dirs = {}
    /\ last = Idle
    /\ writer = NoWriter
    /\ source = <<>>
    /\ procs = NoProcs

\* the clock advances to the next mark
Tick ==
    /\ \E t \in ClockMarks : t > now
    /\ now' = CHOOSE t \in ClockMarks : t > now /\ \A u \in ClockMarks : u > now => t <= u
    /\ UNCHANGED <<files, dirs, last>>

\* the invocation's process exits; the next command may be invoked
Return ==
    /\ last.cmd # "none"
    /\ last' = Idle
    /\ UNCHANGED <<now, files, dirs>>

\* cmd_backup_full(cfg, series, exec_)
BackupFull(series, exec_, toolrc) ==
    LET ym == SeriesOr(series, now)
        d1 == ensure_dir(dirs, base_raw(ym))
        rc == sh(toolrc, exec_)
        meta == Meta("full", now_utc_iso(now), ym)
        f1 == write_json(files, base_meta(ym), meta)
        mani == Append(read_json(f1, manifest(ym), <<>>), meta)
        f2 == write_json(f1, manifest(ym), mani)
    IN  /\ dirs' = d1
        /\ files' = IF rc # 0 THEN files ELSE f2
        /\ last' = [Outcome("backup-full", exec_, ym, rc) EXCEPT
                      !.steps = <<Step("backup", NoTs, rc)>>]
        /\ UNCHANGED now

\* cmd_backup_incr(cfg, series, exec_)
BackupIncr(series, exec_, toolrc) ==
    LET ym == SeriesOr(series, now)
        ts == now_utc_iso(now)
        d1 == ensure_dir(dirs, incr_raw(ym, ts))
        rc == sh(toolrc, exec_)
        meta == Meta("incr", ts, ym)
        mani == Append(read_json(files, manifest(ym), <<>>), meta)
        f1 == write_json(files, manifest(ym), mani)
        f2 == write_text(f1, incr_meta(ym, ts), meta)
    IN  /\ Cardinality(IncrDirs \cup {incr_raw(ym, ts)}) <= MaxIncr
        /\ IF base_raw(ym) \notin dirs
           THEN /\ last' = Outcome("backup-incr", exec_, ym, 1)
                /\ UNCHANGED <<files, dirs>>
           ELSE /\ dirs' = d1
                /\ files' = IF rc # 0 THEN files ELSE f2
                /\ last' = [Outcome("backup-incr", exec_, ym, rc) EXCEPT
                             !.steps = <<Step("backup", now_utc_iso(now), rc)>>]
        /\ UNCHANGED now

---------------------------------------------------------------------------
(* Recovery-position marker *)

MarkerPos == <<"mysql-bin.000005", "1240">>
MarkerGtid == <<"mysql-bin.000005", "1240", "uuid:1-5">>
MarkerChoices == {<<"mysql-bin.000005">>, MarkerPos, MarkerGtid}
MarkerGtids == <<"mysql-bin.000005", "1240", "uuid:1-5,", "uuid2:1-9">>
\* the marker files tried where the replay is looked at: also an empty file
\* and a set of two transaction-id ranges
MarkerForms == MarkerChoices \cup {<<>>, MarkerGtids}

NoInfo == [mode |-> "none", file |-> "", pos |-> "", gtid_set |-> <<>>]

\* a parser that takes the transaction-id mode from two tokens on
ParseGtidFromTwo(f, p) ==
    IF ~Exists(f, p) \/ Len(f[p].doc) < 2 THEN NoInfo
    ELSE [mode |-> "gtid", file |-> "", pos |-> "",
          gtid_set |-> SubSeq(f[p].doc, 2, Len(f[p].doc))]

\* parse_xtrabackup_binlog_info(path); the file's text is its token sequence
parse_xtrabackup_binlog_info(f, p) ==
    IF ~Exists(f, p) THEN NoInfo
    ELSE LET parts == f[p].doc
         IN  IF parts = <<>> THEN NoInfo
             ELSE IF Len(parts) >= 3
             THEN [mode |-> "gtid", file |-> "", pos |-> "",
                   gtid_set |-> SubSeq(parts, 3, Len(parts))]
             ELSE IF Len(parts) >= 2
             THEN [mode |-> "pos", file |-> parts[1], pos |-> parts[2],
                   gtid_set |-> <<>>]
             ELSE NoInfo

\* The snapshot tool's recovery-position marker appears beside the base backup
\* (the core reads it and never writes it); once there it is not rewritten.
PlaceMarker(ym, tokens) ==
    /\ base_raw(ym) \in dirs
    /\ ~Exists(files, base_xb_info(ym))
    /\ files' = Put(files, base_xb_info(ym), Complete(tokens))
    /\ UNCHANGED <<now, dirs, last>>

---------------------------------------------------------------------------
(* Restore *)

NoTime == -1

\* floor_to_minutes(t, minutes)
floor_to_minutes(t, minutes) ==
    IF minutes <= 0 THEN t
    ELSE LET hour == t - (t % SecondsPerHour)
             tminute == (t % SecondsPerHour) \div SecondsPerMinute
             minute == (tminute \div minutes) * minutes
         IN  hour + minute * SecondsPerMinute

Min(S) == CHOOSE x \in S : \A y \in S : x <= y
Max(S) == CHOOSE x \in S : \A y \in S : y <= x

\* list.sort() of the collected names
RECURSIVE SortAsc(_)
SortAsc(S) == IF S = {} THEN <<>> ELSE <<Min(S)>> \o SortAsc(S \ {Min(S)})

\* a selection that leaves out the incremental taken at the target instant
SelectIncrStrict(d, ym, target) ==
    SortAsc({ts \in IncrStamps(d, ym) : strptime_iso(ts) < target})

\* restore, lines 501-509: the incremental directories with a stamp <= target, sorted
SelectIncr(d, ym, target) ==
    SortAsc({ts \in IncrStamps(d, ym) : strptime_iso(ts) <= target})

\* a replay decision that also replays when the target is the last incremental
NeedPitrNonStrict(incr_ts, target) ==
    IF incr_ts = <<>> THEN TRUE
    ELSE target >= strptime_iso(incr_ts[Len(incr_ts)])

\* restore, lines 521-524
NeedPitr(incr_ts, target) ==
    IF incr_ts = <<>> THEN TRUE
    ELSE target > strptime_iso(incr_ts[Len(incr_ts)])

\* an order of invocations that finalizes before the incrementals are folded
PlanStepsFinalizeFirst(incr_ts, replay) ==
    <<"seed", "finalize">>
        \o [i \in 1 .. Len(incr_ts) |-> "apply-log-only"]
        \o (IF replay THEN <<"replay">> ELSE <<>>)

\* restore, lines 498-553: the invocations of one run in the order the code
\* issues them: copy_tree, one apply-log-only per selected stamp, the finalizing
\* prepare, then the replay pipeline
PlanSteps(incr_ts, replay) ==
    <<"seed">>
        \o [i \in 1 .. Len(incr_ts) |-> "apply-log-only"]
        \o <<"finalize">>
        \o (IF replay THEN <<"replay">> ELSE <<>>)

\* the stamp an invocation works on
StepTs(ops, incr_ts, i) ==
    IF ops[i] = "apply-log-only"
    THEN incr_ts[Cardinality({j \in 1 .. i : ops[j] = "apply-log-only"})]
    ELSE NoTs

\* d.glob("*.gz"): the numbers of the archived artifacts in a month's directory
GzIn(f, d, ym) ==
    IF binlog_month(ym) \notin d THEN {}
    ELSE {p.ts : p \in {q \in DOMAIN f :
                          q.area = "binlogs" /\ q.ym = ym /\ q.name = "mysql-bin.gz"}}

\* restore, lines 532-537: every artifact of the target's month, then every
\* artifact of the month after, each directory's listing sorted by name
ReplaySources(f, d, ym) ==
    LET here == SortAsc(GzIn(f, d, ym))
        after == SortAsc(GzIn(f, d, ym + 1))
    IN  [i \in 1 .. Len(here) |-> dst_gz(ym, here[i])]
            \o [i \in 1 .. Len(after) |-> dst_gz(ym + 1, after[i])]

\* target.strftime("%Y-%m-%d %H:%M:%S"): the instant to the second
strftime_seconds(t) ==
    [minute |-> t \div SecondsPerMinute, second |-> t % SecondsPerMinute]

\* a command line that carries the start position whatever the marker's mode
CutoverOptionsPosOnly(info) ==
    IF info.mode = "none" THEN <<>>
    ELSE <<[opt |-> "--start-position", val |-> <<info.pos>>]>>

\* restore, lines 545-548: the cutover options put on the replay command line
CutoverOptions(info) ==
    IF info.mode = "gtid" THEN <<[opt |-> "--exclude-gtids", val |-> info.gtid_set]>>
    ELSE IF info.mode = "pos" THEN <<[opt |-> "--start-position", val |-> <<info.pos>>]>>
    ELSE <<>>

\* q is the directory root or lies below it
Inside(q, root) ==
    /\ q.area = root.area
    /\ \/ root.area = "work"
       \/ /\ q.ym = root.ym
          /\ \/ root.name = ""
             \/ q = root
             \/ root.name = "incr" /\ q.name \in {"incr/raw", "incr/meta.json"}

\* --workdir is not given: tempfile.mkdtemp names a fresh directory, outside
\* every tree that is followed here
NoWorkdir == NoPath

\* a tree move: what shutil.move does, the source gone afterwards
move_tree(st, src, dst, exec_) ==
    IF ~exec_ THEN st
    ELSE [files |-> [q \in {r \in DOMAIN st.files :
                                ~Inside(r, dst) /\ ~Inside(r, src)} |-> st.files[q]],
          dirs |-> {q \in st.dirs : ~Inside(q, dst) /\ ~Inside(q, src)}
                      \cup (IF dst = NoWorkdir THEN {} ELSE {dst})]

\* copy_tree(src, dst, exec_): in execute mode rmtree(dst) when it exists, then
\* copytree(src, dst); st holds the files and the directories, and dst does
\* not hold src. The content of a backup's raw directory is the snapshot
\* tool's and is not followed.
copy_tree(st, src, dst, exec_) ==
    IF ~exec_ THEN st
    ELSE [files |-> [q \in {r \in DOMAIN st.files : ~Inside(r, dst)} |-> st.files[q]],
          dirs |-> {q \in st.dirs : ~Inside(q, dst)}
                      \cup (IF dst = NoWorkdir THEN {} ELSE {dst})]

\* cmd_restore(cfg, time_str, workdir, exec_).
\* failAt is the position of the invocation that exits non-zero (0: none does);
\* the code reads no exit code of a restore step.
RestoreInto(time_str, minutes, exec_, workdir) ==
    LET t0 == IF time_str = NoTime THEN now ELSE time_str
        target == floor_to_minutes(t0, minutes)
        ym == MonthOf(target)
        d0 == IF workdir = NoWorkdir THEN dirs ELSE ensure_dir(dirs, workdir)
        st == copy_tree([files |-> files, dirs |-> d0], base_raw(ym), workdir, exec_)
        incr_ts == SelectIncr(st.dirs, ym, target)
        need_pitr == NeedPitr(incr_ts, target)
        info == parse_xtrabackup_binlog_info(st.files, base_xb_info(ym))
        replay == need_pitr /\ info.mode # "none"
        ops == PlanSteps(incr_ts, replay)
    IN  IF base_raw(ym) \notin dirs
        THEN /\ last' = [Outcome("restore", exec_, ym, 1) EXCEPT
                            !.target = target, !.time = t0, !.round = minutes,
                            !.workdir = workdir]
             /\ UNCHANGED <<now, files, dirs>>
        ELSE /\ \E failAt \in (IF exec_ THEN 0 .. Len(ops) ELSE {0}) :
                  last' = [Outcome("restore", exec_, ym, 0) EXCEPT
                             !.target = target, !.work = TRUE,
                             !.time = t0, !.round = minutes,
                             !.workdir = workdir,
                             !.steps = [i \in 1 .. Len(ops) |->
                                 Step(ops[i], StepTs(ops, incr_ts, i),
                                      IF ops[i] = "seed" THEN 0
                                      ELSE sh(IF i = failAt THEN 2 ELSE 0, exec_))],
                             !.need_pitr = need_pitr,
                             !.info = info.mode,
                             !.cutover = IF replay THEN CutoverOptions(info) ELSE <<>>,
                             !.stop = IF replay THEN strftime_seconds(target)
                                      ELSE NoStop,
                             !.marker = IF need_pitr THEN base_xb_info(ym)
                                        ELSE NoPath,
                             !.sources = IF replay
                                         THEN ReplaySources(st.files, st.dirs, ym)
                                         ELSE <<>>]
             /\ files' = st.files
             /\ dirs' = st.dirs
             /\ UNCHANGED now

\* cmd_restore without --workdir
Restore(time_str, minutes, exec_) == RestoreInto(time_str, minutes, exec_, NoWorkdir)

\* the --time values tried: every clock mark, and two instants off the marks
TimeChoices == ClockMarks \cup {37 * SecondsPerMinute, 52 * SecondsPerMinute}

PitrRoundChoices == {15}

-------------------------------------------------------------------------------------------------------------------------------------------------
(* Specification: the commands run one at a time with the default series;   *)
(* a series gets its full backup attempted once, before its incrementals.   *)

Idling == last.cmd = "none"

Next ==
    \/ Idling /\ Tick /\ UNCHANGED <<writer, source, procs>>
    \/ Return /\ UNCHANGED <<writer, source, procs>>
    \/ \E e \in BOOLEAN, rc \in ToolRcs :
          /\ Idling
          /\ Records < MaxRecords
          /\ base_raw(MonthOf(now)) \notin dirs
          /\ BackupFull(NoSeries, e, rc)
          /\ UNCHANGED <<writer, source, procs>>
    \/ \E e \in BOOLEAN, rc \in ToolRcs :
          Idling /\ Records < MaxRecords /\ BackupIncr(NoSeries, e, rc)
                 /\ UNCHANGED <<writer, source, procs>>
    \/ \E tokens \in MarkerChoices :
          Idling /\ PlaceMarker(MonthOf(now), tokens) /\ UNCHANGED <<writer, source, procs>>
    \/ \E t \in TimeChoices \cup {NoTime}, g \in PitrRoundChoices, e \in BOOLEAN :
          Idling /\ Restore(t, g, e) /\ UNCHANGED <<writer, source, procs>>

Spec == Init /\ [][Next]_vars

---------------------------------------------------------------------------
(* Specification of the chain: backup commands in any order, any series     *)

\* most records the chain manifests may hold together in SpecChain
MaxChain == 3

NextChain ==
    \/ Idling /\ Tick /\ UNCHANGED <<writer, source, procs>>
    \/ Return /\ UNCHANGED <<writer, source, procs>>
    \/ \E sr \in SeriesChoices, e \in BOOLEAN, rc \in ToolRcs :
          Idling /\ Records < MaxChain /\ BackupFull(sr, e, rc) /\ UNCHANGED <<writer, source, procs>>
    \/ \E sr \in SeriesChoices, e \in BOOLEAN, rc \in ToolRcs :
          Idling /\ Records < MaxChain /\ BackupIncr(sr, e, rc) /\ UNCHANGED <<writer, source, procs>>

SpecChain == Init /\ [][NextChain]_vars

---------------------------------------------------------------------------
(* Specification of a crashing writer: the commands that write a manifest   *)
(* or an index, split at the file-system calls of write_json, with a crash   *)
(* possible between any two of them.  As in Spec, a series gets its full     *)
(* backup attempted once.                                                    *)

Writing(state, path, obj, after, ym, ts) ==
    [state |-> state, path |-> path, obj |-> obj, after |-> after,
     ym |-> ym, ts |-> ts]

EmptyIndex == [files |-> <<>>]

\* cmd_backup_full up to its first write_json (the base metadata)
BeginFull(series, exec_, toolrc) ==
    LET ym == SeriesOr(series, now)
        meta == Meta("full", now_utc_iso(now), ym)
    IN  /\ writer.state = "idle"
        /\ dirs' = ensure_dir(dirs, base_raw(ym))
        /\ writer' = IF sh(toolrc, exec_) # 0 THEN NoWriter
                     ELSE Writing("pending", base_meta(ym), meta, "manifest", ym,
                                  now_utc_iso(now))
        /\ UNCHANGED <<now, files, last, source, procs>>

\* cmd_backup_incr up to its write_json (the manifest)
BeginIncr(series, exec_, toolrc) ==
    LET ym == SeriesOr(series, now)
        ts == now_utc_iso(now)
        meta == Meta("incr", ts, ym)
    IN  /\ writer.state = "idle"
        /\ Cardinality(IncrDirs \cup {incr_raw(ym, ts)}) <= MaxIncr
        /\ base_raw(ym) \in dirs
        /\ dirs' = ensure_dir(dirs, incr_raw(ym, ts))
        /\ writer' = IF sh(toolrc, exec_) # 0 THEN NoWriter
                     ELSE Writing("pending", manifest(ym),
                                  Append(read_json(files, manifest(ym), <<>>), meta),
                                  "incr-meta", ym, ts)
        /\ UNCHANGED <<now, files, last, source, procs>>

\* cmd_init up to its first write_json (the index, else the manifest)
BeginInit ==
    LET ym == MonthOf(now)
    IN  /\ writer.state = "idle"
        /\ ~Exists(files, binlog_index(ym)) \/ ~Exists(files, manifest(ym))
        /\ dirs' = ensure_dir(ensure_dir(dirs, series_dir(ym)), binlog_month(ym))
        /\ writer' = IF ~Exists(files, binlog_index(ym))
                     THEN Writing("pending", binlog_index(ym), EmptyIndex,
                                  "init-manifest", ym, NoTs)
                     ELSE Writing("pending", manifest(ym), <<>>, "none", ym, NoTs)
        /\ UNCHANGED <<now, files, last, source, procs>>

\* write_json: tmp.write_text opens (truncates) the temporary file
TmpOpen ==
    /\ writer.state = "pending"
    /\ files' = write_text_open(files, with_suffix_tmp(writer.path), writer.obj)
    /\ writer' = [writer EXCEPT !.state = "opened"]
    /\ UNCHANGED <<now, dirs, last, source, procs>>

\* write_json: tmp.write_text has written the whole text and closed the file
TmpClose ==
    /\ writer.state = "opened"
    /\ files' = write_text_close(files, with_suffix_tmp(writer.path), writer.obj)
    /\ writer' = [writer EXCEPT !.state = "written"]
    /\ UNCHANGED <<now, dirs, last, source, procs>>

\* what the command does after a write_json returned
AfterWrite(w, f) ==
    CASE w.after = "manifest" ->
            Writing("pending", manifest(w.ym),
                    Append(read_json(f, manifest(w.ym), <<>>), w.obj), "none",
                    w.ym, w.ts)
      [] w.after = "incr-meta" ->
            Writing("text-pending", incr_meta(w.ym, w.ts), Meta("incr", w.ts, w.ym),
                    "none", w.ym, w.ts)
      [] w.after = "init-manifest" /\ ~Exists(f, manifest(w.ym)) ->
            Writing("pending", manifest(w.ym), <<>>, "none", w.ym, w.ts)
      [] OTHER -> NoWriter

\* write_json: tmp.replace(path), and the command goes on
TmpRename ==
    /\ writer.state = "written"
    /\ files' = replace(files, with_suffix_tmp(writer.path), writer.path)
    /\ writer' = AfterWrite(writer, files')
    /\ UNCHANGED <<now, dirs, last, source, procs>>

\* cmd_backup_incr, line 404: the per-incremental meta.json, written in place
TextOpen ==
    /\ writer.state = "text-pending"
    /\ files' = write_text_open(files, writer.path, writer.obj)
    /\ writer' = [writer EXCEPT !.state = "text-opened"]
    /\ UNCHANGED <<now, dirs, last, source, procs>>

TextClose ==
    /\ writer.state = "text-opened"
    /\ files' = write_text_close(files, writer.path, writer.obj)
    /\ writer' = NoWriter
    /\ UNCHANGED <<now, dirs, last, source, procs>>

\* the writing process dies; what it left on disk stays
Crash ==
    /\ writer.state # "idle"
    /\ writer' = NoWriter
    /\ UNCHANGED <<now, files, dirs, last, source, procs>>

NextCrash ==
    \/ writer.state = "idle" /\ Tick /\ UNCHANGED <<writer, source, procs>>
    \/ \E e \in BOOLEAN, rc \in ToolRcs :
          /\ Records < MaxChain
          /\ base_raw(MonthOf(now)) \notin dirs
          /\ BeginFull(NoSeries, e, rc)
    \/ \E e \in BOOLEAN, rc \in ToolRcs :
          Records < MaxChain /\ BeginIncr(NoSeries, e, rc)
    \/ BeginInit
    \/ TmpOpen
    \/ TmpClose
    \/ TmpRename
    \/ TextOpen
    \/ TextClose
    \/ Crash

SpecCrash == Init /\ [][NextCrash]_vars

---------------------------------------------------------------------------
(* Binlog shipping *)

\* most binlog segments the server writes
MaxSegments == 2
\* most events a segment holds
MaxEvents == 2

\* a segment in the source directory: its size, the times of its first and
\* last event, and the file's modification time
Segment(size, first, lastev, mtime) ==
    [size |-> size, first |-> first, last |-> lastev, mtime |-> mtime]

\* the server opens a new segment (mysql-bin.<n+1>) with its first event
Rotate ==
    /\ Len(source) < MaxSegments
    /\ source' = Append(source, Segment(1, now, now, now))
    /\ UNCHANGED <<now, files, dirs, last>>

\* the server appends an event to its active segment
LogEvent ==
    /\ source # <<>>
    /\ source[Len(source)].size < MaxEvents
    /\ source' = [source EXCEPT ![Len(source)] =
                     Segment(@.size + 1, IF @.first = NoTime THEN now ELSE @.first,
                             now, now)]
    /\ UNCHANGED <<now, files, dirs, last>>

\* gzip.open(dst_gz, "wb") + copyfileobj: the artifact holds the source's bytes
Gzip(seg) == [gzip |-> seg.size]

NoSha == <<>>
\* sha256_file(path): a digest of the file's bytes
sha256_file(doc) == <<"sha256", doc>>

\* verify_binlog_checksum(cfg, path, exec_)
verify_binlog_checksum(rc, exec_) == sh(rc, exec_) = 0

\* the code sh returns for a tool whose executable is not found; the tools'
\* own exit codes are those of ToolRcs
ExecFailed == 1

\* parse_event_window(cfg, path, exec_): the file's mtime in dry-run, when the
\* decoder's executable is not found (rc is what its invocation just before,
\* the checksum verification, returned) and when the decoded segment holds no
\* timestamp; else the times of the segment's first and last event
parse_event_window(seg, exec_, rc) ==
    IF ~exec_ THEN <<seg.mtime, seg.mtime>>
    ELSE IF rc = ExecFailed THEN <<seg.mtime, seg.mtime>>
    ELSE IF seg.first = NoTime THEN <<seg.mtime, seg.mtime>>
    ELSE <<seg.first, seg.last>>

\* src.name + ".gz"
gz_name(seq) == [stem |-> "mysql-bin", seq |-> seq, ext |-> ".gz"]

\* a list left in the order the entries were added
Unsorted(es) == es

\* files.sort(key=lambda x: x.get("file")): names of one stem and width sort
\* as their numbers do
RECURSIVE SortByFile(_)
SortByFile(es) ==
    IF es = <<>> THEN <<>>
    ELSE LET k == CHOOSE i \in 1 .. Len(es) :
                      \A j \in 1 .. Len(es) :
                          es[i].file.seq < es[j].file.seq
                          \/ (es[i].file.seq = es[j].file.seq /\ i <= j)
             rest == [i \in 1 .. Len(es) - 1 |-> IF i < k THEN es[i] ELSE es[i + 1]]
         IN  <<es[k]>> \o SortByFile(rest)

\* [f for f in files if f.get("file") != gz_name]
RECURSIVE Without(_, _)
Without(es, name) ==
    IF es = <<>> THEN <<>>
    ELSE IF es[1].file = name THEN Without(Tail(es), name)
    ELSE <<es[1]>> \o Without(Tail(es), name)

\* an upsert that appends without removing the entry of the same name
UpsertAppendOnly(es, entry) == SortByFile(Append(es, entry))

\* lines 465-468: the upsert of an entry into the index's list
Upsert(es, entry) == SortByFile(Append(Without(es, entry.file), entry))

\* lines 456-462: the index entry of a segment
Entry(seq, seg, exec_, f, dst, rc) ==
    [file |-> gz_name(seq),
     size |-> seg.size,
     sha256 |-> IF exec_ /\ Exists(f, dst) THEN sha256_file(f[dst].doc) ELSE NoSha,
     first_event_time |-> parse_event_window(seg, exec_, rc)[1],
     last_event_time |-> parse_event_window(seg, exec_, rc)[2]]

\* passes that verify and decode only the segments they have just copied
PassStepsCopiedOnly(seq, copy, rc) ==
    IF copy
    THEN <<Step("gzip_copy", seq, 0), Step("verify", seq, rc), Step("parse", seq, 0)>>
    ELSE <<>>

\* the invocations of one pass of the loop: the copy (when it is made), the
\* checksum verification, the window extraction
PassSteps(seq, copy, rc) ==
    (IF copy THEN <<Step("gzip_copy", seq, 0)>> ELSE <<>>)
        \o <<Step("verify", seq, rc), Step("parse", seq, 0)>>

\* lines 441-470: one pass of the loop over src_files, for the segment seq;
\* st holds the files on disk, the index in memory and the invocations so far
ShipOne(st, seq, ym, exec_, existing, rc) ==
    LET seg == source[seq]
        dst == dst_gz(ym, seq)
        need_copy == gz_name(seq) \notin existing
        f1 == IF need_copy /\ exec_ THEN Put(st.files, dst, Complete(Gzip(seg)))
              ELSE st.files
        ok == verify_binlog_checksum(rc, exec_)
        entry == Entry(seq, seg, exec_, f1, dst, rc)
        index == [st.index EXCEPT !.files = Upsert(@, entry)]
    IN  [files |-> write_json(f1, binlog_index(ym), index),
         index |-> index,
         steps |-> st.steps \o PassSteps(seq, need_copy /\ exec_, IF ok THEN 0 ELSE rc)]

\* an invocation that runs beside others: the command, where it stands, its
\* exit code, and its local variables (mem: the document it holds in memory,
\* mem0: that document as it was read, rec: the record it adds, fd: the file
\* its open handle writes to)
Proc(cmd, pc, exec_, ym, rc, mem, todo, existing, rec) ==
    [cmd |-> cmd, pc |-> pc, exec |-> exec_, ym |-> ym, rc |-> rc,
     mem |-> mem, mem0 |-> mem, todo |-> todo, existing |-> existing,
     steps |-> NoSteps, rec |-> rec, fd |-> NoPath]

NoRec == Meta("none", NoTs, NoSeries)

Start(ps, p, proc) == [q \in (DOMAIN ps) \cup {p} |-> IF q = p THEN proc ELSE ps[q]]

\* cmd_ship_binlogs(cfg, exec_, flush_first), lines 410-434: up to the loop;
\* flushrc is the exit code of the FLUSH BINARY LOGS client
ShipBegin(p, exec_, flush_first, flushrc) ==
    LET ym == MonthOf(now)
        d1 == ensure_dir(dirs, binlog_month(ym))
        index == read_json(files, binlog_index(ym), EmptyIndex)
        rc == IF flush_first THEN sh(flushrc, exec_) ELSE 0
        src_files == SortAsc(DOMAIN source)
        existing == {gz_name(n) : n \in GzIn(files, d1, ym)}
    IN  /\ p \notin DOMAIN procs
        /\ dirs' = d1
        /\ procs' = Start(procs, p,
              IF rc # 0
              THEN Proc("ship-binlogs", "done", exec_, ym, rc, index, <<>>, {}, NoRec)
              ELSE Proc("ship-binlogs", "loop", exec_, ym, 0, index, src_files,
                        existing, NoRec))
        /\ UNCHANGED <<now, files, last, source>>

\* a pass that gives the run up when the checksum verification fails
ShipPassAbortOnBad(p, rc) ==
    /\ p \in DOMAIN procs
    /\ procs[p].cmd = "ship-binlogs"
    /\ procs[p].pc = "loop"
    /\ procs[p].todo # <<>>
    /\ LET me == procs[p]
           st == ShipOne([files |-> files, index |-> me.mem, steps |-> me.steps],
                         me.todo[1], me.ym, me.exec, me.existing, rc)
       IN  IF verify_binlog_checksum(rc, me.exec)
           THEN /\ files' = st.files
                /\ procs' = [procs EXCEPT ![p].mem = st.index,
                                          ![p].steps = st.steps,
                                          ![p].todo = Tail(me.todo)]
           ELSE /\ files' = files
                /\ procs' = [procs EXCEPT ![p].pc = "done", ![p].rc = rc,
                                          ![p].steps = @ \o <<Step("verify", me.todo[1], rc)>>]
    /\ UNCHANGED <<now, dirs, last, source>>

\* one pass of the loop, lines 436-470; rc is the exit code of the checksum
\* verification
ShipPass(p, rc) ==
    /\ p \in DOMAIN procs
    /\ procs[p].cmd = "ship-binlogs"
    /\ procs[p].pc = "loop"
    /\ procs[p].todo # <<>>
    /\ LET me == procs[p]
           st == ShipOne([files |-> files, index |-> me.mem, steps |-> me.steps],
                         me.todo[1], me.ym, me.exec, me.existing, rc)
       IN  /\ files' = st.files
           /\ procs' = [procs EXCEPT ![p].mem = st.index,
                                     ![p].steps = st.steps,
                                     ![p].todo = Tail(me.todo)]
    /\ UNCHANGED <<now, dirs, last, source>>

\* lines 472-473: the loop is over, the command returns 0
ShipEnd(p) ==
    /\ p \in DOMAIN procs
    /\ procs[p].cmd = "ship-binlogs"
    /\ procs[p].pc = "loop"
    /\ procs[p].todo = <<>>
    /\ procs' = [procs EXCEPT ![p].pc = "done"]
    /\ UNCHANGED <<now, files, dirs, last, source>>

\* the invocation's process exits
Exit(p) ==
    /\ p \in DOMAIN procs
    /\ procs[p].pc = "done"
    /\ procs' = [q \in (DOMAIN procs) \ {p} |-> procs[q]]
    /\ UNCHANGED <<now, files, dirs, last, source>>

\* the exit codes of the flush client that are tried
FlushChoices == {<<FALSE, 0>>, <<TRUE, 0>>, <<TRUE, 2>>}

(* Specification of shipping: one ship-binlogs at a time beside the server  *)
(* that writes the segments                                                 *)

\* the instants at which the clock is read while shipping is looked at: two,
\* so that a segment's first and last event can differ
ShipMarks == {t \in ClockMarks : t <= 15 * SecondsPerMinute}

NextShip ==
    \/ (\E t \in ShipMarks : t > now) /\ Tick /\ UNCHANGED <<writer, source, procs>>
    \/ Rotate /\ UNCHANGED <<writer, procs>>
    \/ LogEvent /\ UNCHANGED <<writer, procs>>
    \/ \E e \in BOOLEAN, fl \in FlushChoices :
          ShipBegin(1, e, fl[1], fl[2]) /\ UNCHANGED writer
    \/ \E rc \in ToolRcs : ShipPass(1, rc) /\ UNCHANGED writer
    \/ ShipEnd(1) /\ UNCHANGED writer
    \/ Exit(1) /\ UNCHANGED writer

SpecShip == Init /\ [][NextShip]_vars

(* Specification of shipping across a month boundary: the same source      *)
(* directory is shipped in one calendar month and again in the next         *)

\* most calendar months the shipping runs are spread over
MaxMonths == 2

\* the calendar month ends: the clock stands at the start of the next one
NextMonth ==
    /\ MonthOf(now) + 1 < MaxMonths
    /\ now' = (MonthOf(now) + 1) * SecondsPerMonth
    /\ UNCHANGED <<files, dirs, last>>

NextMonths ==
    \/ procs = NoProcs /\ NextMonth /\ UNCHANGED <<writer, source, procs>>
    \/ Rotate /\ UNCHANGED <<writer, procs>>
    \/ \E e \in BOOLEAN : ShipBegin(1, e, FALSE, 0) /\ UNCHANGED writer
    \/ ShipPass(1, 0) /\ UNCHANGED writer
    \/ ShipEnd(1) /\ UNCHANGED writer
    \/ Exit(1) /\ UNCHANGED writer

SpecMonths == Init /\ [][NextMonths]_vars

(* Specification of recovery across a month boundary: a full backup with    *)
(* its marker, segments shipped in one month and in the next, and restores  *)
NextMonthsPitr ==
    \/ Idling /\ procs = NoProcs /\ NextMonth /\ UNCHANGED <<writer, source, procs>>
    \/ Return /\ UNCHANGED <<writer, source, procs>>
    \/ Idling /\ Rotate /\ UNCHANGED <<writer, procs>>
    \/ /\ Idling
       /\ base_raw(MonthOf(now)) \notin dirs
       /\ BackupFull(NoSeries, TRUE, 0)
       /\ UNCHANGED <<writer, source, procs>>
    \/ Idling /\ PlaceMarker(MonthOf(now), MarkerPos) /\ UNCHANGED <<writer, source, procs>>
    \/ Idling /\ ShipBegin(1, TRUE, FALSE, 0) /\ UNCHANGED writer
    \/ ShipPass(1, 0) /\ UNCHANGED writer
    \/ ShipEnd(1) /\ UNCHANGED writer
    \/ Exit(1) /\ UNCHANGED writer
    \/ \E t \in TimeChoices \cup {NoTime}, g \in PitrRoundChoices, e \in BOOLEAN :
          /\ Idling
          /\ procs = NoProcs
          /\ Restore(t, g, e)
          /\ UNCHANGED <<writer, source, procs>>

SpecMonthsPitr == Init /\ [][NextMonthsPitr]_vars

(* Specification of restore's working area: backups, their marker, shipped  *)
(* segments, and restores into a temporary directory, into a directory      *)
(* outside the backup root, and into the series' incremental storage        *)

\* a --workdir outside the backup root
WorkOutside == Path("work", NoSeries, "", NoTs)

\* the --workdir values tried
WorkdirChoices == {NoWorkdir, WorkOutside} \cup {incr_dir(ym) : ym \in Months}

NextWork ==
    \/ Idling /\ (\E t \in ShipMarks : t > now) /\ Tick
              /\ UNCHANGED <<writer, source, procs>>
    \/ Return /\ UNCHANGED <<writer, source, procs>>
    \/ Idling /\ Rotate /\ UNCHANGED <<writer, procs>>
    \/ /\ Idling
       /\ Records < MaxRecords
       /\ base_raw(MonthOf(now)) \notin dirs
       /\ BackupFull(NoSeries, TRUE, 0)
       /\ UNCHANGED <<writer, source, procs>>
    \/ Idling /\ Records < MaxRecords /\ BackupIncr(NoSeries, TRUE, 0)
              /\ UNCHANGED <<writer, source, procs>>
    \/ Idling /\ PlaceMarker(MonthOf(now), MarkerPos) /\ UNCHANGED <<writer, source, procs>>
    \/ Idling /\ ShipBegin(1, TRUE, FALSE, 0) /\ UNCHANGED writer
    \/ ShipPass(1, 0) /\ UNCHANGED writer
    \/ ShipEnd(1) /\ UNCHANGED writer
    \/ Exit(1) /\ UNCHANGED writer
    \/ \E t \in ShipMarks, g \in PitrRoundChoices, e \in BOOLEAN,
          w \in WorkdirChoices :
          /\ Idling
          /\ procs = NoProcs
          /\ RestoreInto(t, g, e, w)
          /\ UNCHANGED <<writer, source, procs>>

SpecWork == Init /\ [][NextWork]_vars

(* Specification of shipping with the command of cli/app.py: its sh and its  *)
(* parse_event_window do not catch FileNotFoundError, the rest of the loop  *)
(* is that of main.py. The decoder's executable may be missing, and a       *)
(* segment may hold no timestamped event.                                   *)

\* the server opens a new segment that holds no timestamped event yet
RotateBare ==
    /\ Len(source) < MaxSegments
    /\ source' = Append(source, Segment(0, NoTime, NoTime, now))
    /\ UNCHANGED <<now, files, dirs, last>>

\* cli/app.py, ship_binlogs, lines 426-464: one pass of the loop. When the
\* executable is not found (rc = ExecFailed), subprocess.call in sh raises
\* FileNotFoundError out of verify_binlog_checksum, after the copy: the
\* command ends in a traceback, exit code 1, the index not written.
AppShipPass(p, rc) ==
    /\ p \in DOMAIN procs
    /\ procs[p].cmd = "ship-binlogs"
    /\ procs[p].pc = "loop"
    /\ procs[p].todo # <<>>
    /\ LET me == procs[p]
           seq == me.todo[1]
           dst == dst_gz(me.ym, seq)
           need_copy == gz_name(seq) \notin me.existing
           st == ShipOne([files |-> files, index |-> me.mem, steps |-> me.steps],
                         seq, me.ym, me.exec, me.existing, rc)
       IN  IF me.exec /\ rc = ExecFailed
           THEN /\ files' = IF need_copy
                            THEN Put(files, dst, Complete(Gzip(source[seq])))
                            ELSE files
                /\ procs' = [procs EXCEPT
                      ![p].pc = "done", ![p].rc = 1,
                      ![p].steps = @ \o (IF need_copy
                                         THEN <<Step("gzip_copy", seq, 0)>>
                                         ELSE <<>>)
                                     \o <<Step("verify", seq, ExecFailed)>>]
           ELSE /\ files' = st.files
                /\ procs' = [procs EXCEPT ![p].mem = st.index,
                                          ![p].steps = st.steps,
                                          ![p].todo = Tail(me.todo)]
    /\ UNCHANGED <<now, dirs, last, source>>

NextApp ==
    \/ (\E t \in ShipMarks : t > now) /\ Tick /\ UNCHANGED <<writer, source, procs>>
    \/ Rotate /\ UNCHANGED <<writer, procs>>
    \/ RotateBare /\ UNCHANGED <<writer, procs>>
    \/ LogEvent /\ UNCHANGED <<writer, procs>>
    \/ \E e \in BOOLEAN : ShipBegin(1, e, FALSE, 0) /\ UNCHANGED writer
    \/ \E rc \in ToolRcs \cup {ExecFailed} : AppShipPass(1, rc) /\ UNCHANGED writer
    \/ ShipEnd(1) /\ UNCHANGED writer
    \/ Exit(1) /\ UNCHANGED writer

SpecApp == Init /\ [][NextApp]_vars

(* Specification of point-in-time recovery: a full backup with its marker,  *)
(* segments shipped in execute mode, and restores                           *)
NextPitr ==
    \/ Idling /\ Tick /\ UNCHANGED <<writer, source, procs>>
    \/ Return /\ UNCHANGED <<writer, source, procs>>
    \/ Idling /\ Rotate /\ UNCHANGED <<writer, procs>>
    \/ /\ Idling
       /\ base_raw(MonthOf(now)) \notin dirs
       /\ BackupFull(NoSeries, TRUE, 0)
       /\ UNCHANGED <<writer, source, procs>>
    \/ \E tokens \in MarkerForms :
          Idling /\ PlaceMarker(MonthOf(now), tokens) /\ UNCHANGED <<writer, source, procs>>
    \/ Idling /\ ShipBegin(1, TRUE, FALSE, 0) /\ UNCHANGED writer
    \/ ShipPass(1, 0) /\ UNCHANGED writer
    \/ ShipEnd(1) /\ UNCHANGED writer
    \/ Exit(1) /\ UNCHANGED writer
    \/ \E t \in TimeChoices \cup {NoTime}, g \in PitrRoundChoices, e \in BOOLEAN :
          /\ Idling
          /\ procs = NoProcs
          /\ Restore(t, g, e)
          /\ UNCHANGED <<writer, source, procs>>

SpecPitr == Init /\ [][NextPitr]_vars

(* Specification of the target's flooring: restores at instants that carry  *)
(* seconds, over several hours, with granularities that divide the hour,    *)
(* that do not, and that exceed it                                          *)

\* the instants at which restore is run
FloorInstants ==
    {h * SecondsPerHour + m * SecondsPerMinute + sec :
        h \in 0 .. 2, m \in {0, 7, 14, 15, 37, 44, 45, 59}, sec \in {0, 42}}

\* the values of pitr_round_minutes tried
FloorRounds == {1, 7, 15, 45, 60, 90}

InitFloor ==
    /\ now \in FloorInstants
    /\ files = <<>>
    /\ dirs = {}
    /\ last = Idle
    /\ writer = NoWriter
    /\ source = <<>>
    /\ procs = NoProcs

NextFloor ==
    \/ Return /\ UNCHANGED <<writer, source, procs>>
    \/ \E g \in FloorRounds, e \in BOOLEAN :
          Idling /\ Restore(NoTime, g, e) /\ UNCHANGED <<writer, source, procs>>
    \/ \E t \in TimeChoices, g \in FloorRounds, e \in BOOLEAN :
          Idling /\ Restore(t, g, e) /\ UNCHANGED <<writer, source, procs>>

SpecFloor == InitFloor /\ [][NextFloor]_vars

---------------------------------------------------------------------------
(* Specification of two writers: two backup invocations, started once each, *)
(* that interleave at the read and the write of the manifest                *)

\* the invocations that may run side by side
Writers == {1, 2}

\* cmd_backup_full, lines 350-366: up to the read of the manifest
FullBegin(p, series, exec_, toolrc) ==
    LET ym == SeriesOr(series, now)
        rc == sh(toolrc, exec_)
        meta == Meta("full", now_utc_iso(now), ym)
    IN  /\ p \notin DOMAIN procs
        /\ dirs' = ensure_dir(dirs, base_raw(ym))
        /\ files' = IF rc # 0 THEN files ELSE write_json(files, base_meta(ym), meta)
        /\ procs' = Start(procs, p,
              Proc("backup-full", IF rc # 0 THEN "done" ELSE "read", exec_, ym, rc,
                   <<>>, <<>>, {}, meta))
        /\ UNCHANGED <<now, last, source>>

\* cmd_backup_incr, lines 376-398: up to the read of the manifest
IncrBegin(p, series, exec_, toolrc) ==
    LET ym == SeriesOr(series, now)
        ts == now_utc_iso(now)
        rc == sh(toolrc, exec_)
        meta == Meta("incr", ts, ym)
    IN  /\ p \notin DOMAIN procs
        /\ Cardinality(IncrDirs \cup {incr_raw(ym, ts)}) <= MaxIncr
        /\ IF base_raw(ym) \notin dirs
           THEN /\ procs' = Start(procs, p,
                      Proc("backup-incr", "done", exec_, ym, 1, <<>>, <<>>, {}, meta))
                /\ UNCHANGED dirs
           ELSE /\ dirs' = ensure_dir(dirs, incr_raw(ym, ts))
                /\ procs' = Start(procs, p,
                      Proc("backup-incr", IF rc # 0 THEN "done" ELSE "read", exec_,
                           ym, rc, <<>>, <<>>, {}, meta))
        /\ UNCHANGED <<now, files, last, source>>

\* lines 368 and 399: mani = read_json(lay.manifest(ym), default=[])
ManifestRead(p) ==
    /\ p \in DOMAIN procs
    /\ procs[p].pc = "read"
    /\ procs' = [procs EXCEPT ![p].mem = read_json(files, manifest(procs[p].ym), <<>>),
                              ![p].mem0 = read_json(files, manifest(procs[p].ym), <<>>),
                              ![p].pc = "write"]
    /\ UNCHANGED <<now, files, dirs, last, source>>

\* what a writer leaves on disk after its manifest: backup-incr its meta.json
AfterManifest(f, me) ==
    IF me.cmd = "backup-incr" THEN write_text(f, incr_meta(me.ym, me.rec.ts), me.rec)
    ELSE f

\* a write that appends to the manifest as it is on disk at that moment
ManifestWriteFresh(p) ==
    /\ p \in DOMAIN procs
    /\ procs[p].pc = "write"
    /\ files' = AfterManifest(
                   write_json(files, manifest(procs[p].ym),
                              Append(read_json(files, manifest(procs[p].ym), <<>>),
                                     procs[p].rec)),
                   procs[p])
    /\ procs' = [procs EXCEPT ![p].mem = Append(@, procs[p].rec), ![p].pc = "done"]
    /\ UNCHANGED <<now, dirs, last, source>>

\* lines 369-373 and 400-407: mani.append(meta); write_json(manifest, mani),
\* and the command returns 0
ManifestWrite(p) ==
    /\ p \in DOMAIN procs
    /\ procs[p].pc = "write"
    /\ files' = AfterManifest(
                   write_json(files, manifest(procs[p].ym),
                              Append(procs[p].mem, procs[p].rec)),
                   procs[p])
    /\ procs' = [procs EXCEPT ![p].mem = Append(@, procs[p].rec), ![p].pc = "done"]
    /\ UNCHANGED <<now, dirs, last, source>>

NextRace ==
    \/ Tick /\ UNCHANGED <<writer, source, procs>>
    \/ \E p \in Writers, sr \in SeriesChoices, e \in BOOLEAN, rc \in ToolRcs :
          FullBegin(p, sr, e, rc) /\ UNCHANGED writer
    \/ \E p \in Writers, sr \in SeriesChoices, e \in BOOLEAN, rc \in ToolRcs :
          IncrBegin(p, sr, e, rc) /\ UNCHANGED writer
    \/ \E p \in Writers : ManifestRead(p) /\ UNCHANGED writer
    \/ \E p \in Writers : ManifestWrite(p) /\ UNCHANGED writer

SpecRace == Init /\ [][NextRace]_vars

(* Specification of two writers inside write_json: the manifest's write is  *)
(* taken in the steps of lines 154-157, each writer its own process; both   *)
(* name the temporary file path.with_suffix(".tmp")                         *)

\* line 156, tmp.write_text(...): open(tmp, "w") creates or truncates the file
JsonOpen(p) ==
    /\ p \in DOMAIN procs
    /\ procs[p].pc = "write"
    /\ LET me == procs[p]
           tmp == with_suffix_tmp(manifest(me.ym))
       IN  /\ files' = write_text_open(files, tmp, Append(me.mem, me.rec))
           /\ procs' = [procs EXCEPT ![p].pc = "opened", ![p].fd = tmp]
    /\ UNCHANGED <<now, dirs, last, source>>

\* line 156, tmp.write_text(...): the text goes to the file the handle is
\* open on, wherever that file is named by now, and the handle is closed; the
\* two writers' texts are of one length
JsonWrite(p) ==
    /\ p \in DOMAIN procs
    /\ procs[p].pc = "opened"
    /\ LET me == procs[p]
       IN  /\ files' = write_text_close(files, me.fd, Append(me.mem, me.rec))
           /\ procs' = [procs EXCEPT ![p].pc = "written", ![p].fd = NoPath]
    /\ UNCHANGED <<now, dirs, last, source>>

\* line 157, tmp.replace(path): the file named tmp becomes the manifest, and
\* with it every handle open on it; without a file of that name the call
\* raises FileNotFoundError and the command ends in a traceback
JsonReplace(p) ==
    /\ p \in DOMAIN procs
    /\ procs[p].pc = "written"
    /\ LET me == procs[p]
           dst == manifest(me.ym)
           tmp == with_suffix_tmp(dst)
       IN  IF Exists(files, tmp)
           THEN /\ files' = AfterManifest(replace(files, tmp, dst), me)
                /\ procs' = [q \in DOMAIN procs |->
                      IF q = p
                      THEN [me EXCEPT !.mem = Append(@, me.rec), !.pc = "done"]
                      ELSE IF procs[q].fd = tmp
                      THEN [procs[q] EXCEPT !.fd = dst]
                      ELSE procs[q]]
           ELSE /\ files' = files
                /\ procs' = [procs EXCEPT ![p].pc = "done", ![p].rc = 1]
    /\ UNCHANGED <<now, dirs, last, source>>

NextTmp ==
    \/ \E p \in Writers, e \in BOOLEAN, rc \in ToolRcs :
          FullBegin(p, NoSeries, e, rc) /\ UNCHANGED writer
    \/ \E p \in Writers, e \in BOOLEAN, rc \in ToolRcs :
          IncrBegin(p, NoSeries, e, rc) /\ UNCHANGED writer
    \/ \E p \in Writers : ManifestRead(p) /\ UNCHANGED writer
    \/ \E p \in Writers : JsonOpen(p) /\ UNCHANGED writer
    \/ \E p \in Writers : JsonWrite(p) /\ UNCHANGED writer
    \/ \E p \in Writers : JsonReplace(p) /\ UNCHANGED writer

SpecTmp == Init /\ [][NextTmp]_vars

---------------------------------------------------------------------------
(* Properties of the chain *)

Fulls(m) == {i \in 1 .. Len(m) : m[i].type = "full"}

ManifestSeries == {q.ym : q \in {r \in DOMAIN files : r.name = "manifest.json"}}

\* C1: no manifest holds an incremental record that is not preceded by a full
\* record (a backup-incr on a series without a full record appends nothing).
C1_IncrAfterFull ==
    \A ym \in ManifestSeries :
        \A i \in 1 .. Len(Manifest(ym)) :
            Manifest(ym)[i].type = "incr" => \E j \in Fulls(Manifest(ym)) : j < i

\* C2: every manifest holds at most one full record, and it is the first record
\* (a backup-full on a series that has a full record changes nothing).
C2_OneFullFirst ==
    \A ym \in ManifestSeries :
        /\ Cardinality(Fulls(Manifest(ym))) <= 1
        /\ Fulls(Manifest(ym)) \subseteq {1}

---------------------------------------------------------------------------
(* Properties of restore *)

\* a restore run that got past the base-backup check
Restored == last.cmd = "restore" /\ last.work

\* the stamps of the apply-log-only invocations of the run, in order
AppliedOf(steps) ==
    LET idx == {i \in 1 .. Len(steps) : steps[i].op = "apply-log-only"}
    IN  [k \in 1 .. Cardinality(idx) |->
            steps[CHOOSE i \in idx : Cardinality({j \in idx : j <= i}) = k].ts]

Applied == AppliedOf(last.steps)

\* the incremental stamps of the target's series that are not after the target
Eligible == {ts \in IncrStamps(dirs, last.ym) : strptime_iso(ts) <= last.target}

StepsOf(op) == {i \in 1 .. Len(last.steps) : last.steps[i].op = op}

\* C3: restore applies exactly the incrementals of the target's series whose
\* stamp is <= the floored target, in strictly ascending order, and none that
\* is later than the target.
C3_AppliesUpToTarget ==
    Restored =>
        /\ {Applied[k] : k \in 1 .. Len(Applied)} = Eligible
        /\ \A k \in 1 .. Len(Applied) - 1 : Applied[k] < Applied[k + 1]
        /\ \A k \in 1 .. Len(Applied) : strptime_iso(Applied[k]) <= last.target

\* C3 witness: incrementals T1 < T2 < T3 and target = T2: T1 then T2, never T3
C3_Witness ==
    /\ Restored
    /\ Cardinality(IncrStamps(dirs, last.ym)) = 3
    /\ Len(Applied) = 2
    /\ strptime_iso(Applied[2]) = last.target

\* C4: need_log_replay is true iff no incremental was selected or the floored
\* target is strictly later than the last selected incremental; without it no
\* replay is run.
C4_NeedReplayIff ==
    Restored =>
        /\ last.need_pitr =
              (Eligible = {} \/ last.target > strptime_iso(Max(Eligible)))
        /\ ~last.need_pitr => StepsOf("replay") = {}

\* C4 witness: the target equals the last selected incremental: no replay
C4_Witness ==
    /\ Restored
    /\ Eligible # {}
    /\ last.target = strptime_iso(Max(Eligible))
    /\ ~last.need_pitr
    /\ last.info # "none"

\* C5: a restore run seeds the working area, then applies the selected
\* incrementals in ascending order, then finalizes exactly once, then (only if
\* required) replays the log.
C5_StepOrder ==
    Restored =>
        /\ StepsOf("seed") = {1}
        /\ Cardinality(StepsOf("finalize")) = 1
        /\ \A a \in StepsOf("apply-log-only"), f \in StepsOf("finalize") : 1 < a /\ a < f
        /\ \A a, b \in StepsOf("apply-log-only") :
              a < b => last.steps[a].ts < last.steps[b].ts
        /\ Cardinality(StepsOf("replay")) <= 1
        /\ \A r \in StepsOf("replay"), f \in StepsOf("finalize") : f < r
        /\ StepsOf("replay") # {} => last.need_pitr
        /\ \A i \in 1 .. Len(last.steps) :
              last.steps[i].op \in {"seed", "apply-log-only", "finalize", "replay"}

\* C5 witness: a run with two incrementals to apply and a replay
C5_Witness ==
    /\ Restored
    /\ Cardinality(StepsOf("apply-log-only")) = 2
    /\ StepsOf("replay") # {}

\* C6: when replay is required and the marker is absent, restore fails, before
\* the working area is seeded and before any snapshot-tool step.
C6_MissingMarkerFails ==
    (last.cmd = "restore" /\ last.need_pitr /\ last.info = "none") =>
        (last.rc # 0 /\ ~last.work /\ last.steps = NoSteps)

\* C7: a restore whose target series has no full record in its manifest fails
\* before any tool is invoked and before anything is written.
C7_NoFullRecordFails ==
    (last.cmd = "restore" /\ Fulls(Manifest(last.ym)) = {}) =>
        (last.rc # 0 /\ ~last.work /\ last.steps = NoSteps)

\* C8: when an invocation of a restore run exits non-zero, no later step is
\* invoked in that run.
C8_StopsAtFailure ==
    last.cmd = "restore" =>
        \A i \in 1 .. Len(last.steps) :
            last.steps[i].rc # 0 => i = Len(last.steps)

\* C9: a command in dry-run mode leaves the files and the directory tree as
\* they were.
C9_DryRunFrame ==
    [][(last.cmd = "none" /\ last'.cmd # "none" /\ ~last'.exec)
         => (files' = files /\ dirs' = dirs)]_vars

---------------------------------------------------------------------------
(* Properties of write_json *)

JsonTargets(f) == {p \in DOMAIN f : p.name \in {"manifest.json", "index.json"}}

\* C10: whatever the point at which a writer crashes, a manifest or an index is
\* always a complete document: a step leaves it as it was, or replaces it by
\* the complete document the writer was writing.
C10_OldOrNew ==
    [][/\ JsonTargets(files) \subseteq JsonTargets(files')
       /\ \A p \in JsonTargets(files') :
             /\ files'[p].complete
             /\ \/ p \in DOMAIN files /\ files'[p] = files[p]
                \/ /\ writer.state = "written"
                   /\ writer.path = p
                   /\ files'[p] = Complete(writer.obj)]_vars

\* C10 witness: a writer died inside the write of the temporary file of a
\* manifest that holds committed records
C10_Witness ==
    /\ writer.state = "idle"
    /\ \E p \in JsonTargets(files) :
          /\ p.name = "manifest.json"
          /\ files[p].doc # <<>>
          /\ Exists(files, with_suffix_tmp(p))
          /\ ~files[with_suffix_tmp(p)].complete
          /\ files[p].complete

---------------------------------------------------------------------------
(* Properties of shipping *)

\* the names of the entries of an index list
Names(es) == {es[i].file : i \in 1 .. Len(es)}

\* the index files on disk
Indexes == {p \in DOMAIN files : p.name = "index.json"}

\* this step is a pass of p's loop
IsPass(p) ==
    /\ p \in DOMAIN procs
    /\ procs[p].cmd = "ship-binlogs"
    /\ procs[p].pc = "loop"
    /\ procs[p].todo # <<>>
    /\ p \in DOMAIN procs'
    /\ procs'[p].todo = Tail(procs[p].todo)

\* C11: an upsert of an entry whose filename is already in the index replaces
\* that entry: the list keeps its length, every entry of another filename stays
\* as and where it was, the entry of that filename is the new one, and that
\* list is what is persisted.
C11_UpsertReplaces ==
    [][\A p \in DOMAIN procs :
          (IsPass(p) /\ gz_name(procs[p].todo[1]) \in Names(procs[p].mem.files)) =>
             LET seq == procs[p].todo[1]
                 old == procs[p].mem.files
                 new == procs'[p].mem.files
                 e == Entry(seq, source[seq], procs[p].exec, files',
                            dst_gz(procs[p].ym, seq), 0)
             IN  /\ Len(new) = Len(old)
                 /\ \A i \in 1 .. Len(old) :
                       new[i] = IF old[i].file = gz_name(seq) THEN e ELSE old[i]
                 /\ files'[binlog_index(procs[p].ym)] =
                       Complete([procs[p].mem EXCEPT !.files = new])]_vars

\* C11 witness: a run went over an index of two entries and changed the
\* content of an entry without changing the list's length
C11_Witness ==
    \E p \in DOMAIN procs :
        /\ procs[p].cmd = "ship-binlogs"
        /\ procs[p].todo = <<>>
        /\ Len(procs[p].mem0.files) = 2
        /\ Len(procs[p].mem.files) = 2
        /\ \E i \in 1 .. 2 :
              /\ procs[p].mem0.files[i].file = procs[p].mem.files[i].file
              /\ procs[p].mem0.files[i] # procs[p].mem.files[i]

\* C12: every persisted index is a complete document whose entries have
\* pairwise different filenames and stand in ascending filename order.
C12_IndexUniqueSorted ==
    \A x \in Indexes :
        /\ files[x].complete
        /\ \A i, j \in 1 .. Len(files[x].doc.files) :
              i < j => /\ files[x].doc.files[i].file # files[x].doc.files[j].file
                       /\ files[x].doc.files[i].file.seq < files[x].doc.files[j].file.seq

\* C12 witness: a run over an index that held two entries has ended, and the
\* persisted index holds two entries
C12_Witness ==
    \E p \in DOMAIN procs :
        /\ procs[p].cmd = "ship-binlogs"
        /\ procs[p].pc = "done"
        /\ procs[p].rc = 0
        /\ Len(procs[p].mem0.files) = 2
        /\ Len(files[binlog_index(procs[p].ym)].doc.files) = 2

\* the entries a persisted index holds
IndexEntries(f, ym) ==
    LET es == read_json(f, binlog_index(ym), EmptyIndex).files
    IN  {es[i] : i \in 1 .. Len(es)}

\* the invocations procs[p] made in this step
NewSteps(p) == SubSeq(procs'[p].steps, Len(procs[p].steps) + 1, Len(procs'[p].steps))

\* C16: a pass in execute mode over a segment whose artifact exists and whose
\* index entry is the one an execute-mode run leaves for the source as it is
\* does not recompress, runs the checksum verification and the window
\* extraction, and leaves the artifact and the persisted index as they were.
C16_RerunKeepsIndex ==
    [][\A p \in DOMAIN procs :
          LET seq == procs[p].todo[1]
              dst == dst_gz(procs[p].ym, seq)
          IN  (/\ IsPass(p)
               /\ procs[p].exec
               /\ gz_name(seq) \in procs[p].existing
               /\ Exists(files, dst)
               /\ Entry(seq, source[seq], TRUE, files, dst, 0)
                     \in IndexEntries(files, procs[p].ym))
              => /\ \A i \in 1 .. Len(NewSteps(p)) : NewSteps(p)[i].op # "gzip_copy"
                 /\ \E i \in 1 .. Len(NewSteps(p)) :
                       NewSteps(p)[i].op = "verify" /\ NewSteps(p)[i].ts = seq
                 /\ \E i \in 1 .. Len(NewSteps(p)) :
                       NewSteps(p)[i].op = "parse" /\ NewSteps(p)[i].ts = seq
                 /\ files'[dst] = files[dst]
                 /\ files'[binlog_index(procs[p].ym)] = files[binlog_index(procs[p].ym)]
                 /\ procs'[p].mem = procs[p].mem]_vars

\* the steps of an operation among the invocations of a process
ProcSteps(p, op) == {i \in 1 .. Len(procs[p].steps) : procs[p].steps[i].op = op}

\* C16 witness: an execute-mode run over two archived and indexed segments
\* has ended: no copy, two verifications, two extractions, the index as read
C16_Witness ==
    \E p \in DOMAIN procs :
        /\ procs[p].cmd = "ship-binlogs" /\ procs[p].pc = "done" /\ procs[p].exec
        /\ ProcSteps(p, "gzip_copy") = {}
        /\ Cardinality(ProcSteps(p, "verify")) = 2
        /\ Cardinality(ProcSteps(p, "parse")) = 2
        /\ Len(procs[p].mem0.files) = 2
        /\ procs[p].mem = procs[p].mem0
        /\ files[binlog_index(procs[p].ym)].doc = procs[p].mem0
        /\ \A i \in 1 .. 2 : procs[p].mem0.files[i].sha256 # NoSha

\* C17: a pass whose checksum verification fails still archives and indexes
\* its segment and leaves the entries of the other segments as they were, and
\* the run goes on: a run that entered its loop ends only with exit code 0 and
\* with no discovered segment left.
C17_BadChecksumGoesOn ==
    [][/\ \A p \in DOMAIN procs :
             LET seq == procs[p].todo[1]
                 dst == dst_gz(procs[p].ym, seq)
             IN  (/\ IsPass(p)
                  /\ \E i \in 1 .. Len(NewSteps(p)) :
                        NewSteps(p)[i].op = "verify" /\ NewSteps(p)[i].rc # 0)
                 => /\ Exists(files', dst)
                    /\ Entry(seq, source[seq], procs[p].exec, files', dst, 0)
                          \in IndexEntries(files', procs[p].ym)
                    /\ \A e \in IndexEntries(files, procs[p].ym) :
                          e.file # gz_name(seq) => e \in IndexEntries(files', procs[p].ym)
                    /\ procs'[p].pc = "loop"
       /\ \A p \in DOMAIN procs' :
             (procs'[p].cmd = "ship-binlogs" /\ procs'[p].pc = "done"
                  /\ procs'[p].steps # NoSteps)
                 => (procs'[p].rc = 0 /\ procs'[p].todo = <<>>)]_vars

\* C17 witness: a run over two segments has ended with exit code 0; the
\* verification of the first failed, both are archived and indexed
C17_Witness ==
    \E p \in DOMAIN procs :
        /\ procs[p].cmd = "ship-binlogs" /\ procs[p].pc = "done" /\ procs[p].rc = 0
        /\ \E i \in ProcSteps(p, "verify") :
              procs[p].steps[i].ts = 1 /\ procs[p].steps[i].rc # 0
        /\ \E i \in ProcSteps(p, "verify") :
              procs[p].steps[i].ts = 2 /\ procs[p].steps[i].rc = 0
        /\ \A n \in 1 .. 2 :
              /\ Exists(files, dst_gz(procs[p].ym, n))
              /\ \E e \in IndexEntries(files, procs[p].ym) : e.file = gz_name(n)

---------------------------------------------------------------------------
(* Properties of the replay *)

\* the archived artifacts of a month and of the month after
Archived(ym) ==
    {dst_gz(ym, n) : n \in GzIn(files, dirs, ym)}
        \cup {dst_gz(ym + 1, n) : n \in GzIn(files, dirs, ym + 1)}

\* the index entries of an archived artifact
EntriesOf(a) ==
    LET es == read_json(files, binlog_index(a.ym), EmptyIndex).files
    IN  {es[i] : i \in {j \in 1 .. Len(es) : es[j].file = gz_name(a.ts)}}

\* the instant of the full backup of a series, from which the replay starts
CutoverTime(ym) == strptime_iso(files[base_meta(ym)].doc.ts)

\* C13: when replay is run, its segment list holds exactly the archived
\* segments whose [first_event_time, last_event_time] overlaps the window from
\* the cutover to the target: none that lies entirely after the target, none
\* that lies entirely before the cutover.
C13_SourcesOverlapWindow ==
    (last.cmd = "restore" /\ StepsOf("replay") # {}
         /\ Exists(files, base_meta(last.ym))) =>
        {last.sources[i] : i \in 1 .. Len(last.sources)} =
            {a \in Archived(last.ym) :
                \E e \in EntriesOf(a) :
                    /\ e.first_event_time <= last.target
                    /\ e.last_event_time >= CutoverTime(last.ym)}

\* the tokens of the marker of a series (none when the file is missing)
MarkerTokens(ym) ==
    IF Exists(files, base_xb_info(ym)) THEN files[base_xb_info(ym)].doc ELSE <<>>

\* C14: the marker parses to transaction-id mode (set = tokens 3 onward) exactly
\* when it has 3 or more tokens, to position mode (file, offset) exactly when it
\* has 2, and to 'absent' when it has fewer or the file is missing; a restore
\* that replays passes exactly one cutover option: the exclusion set in
\* transaction-id mode, the start position in position mode.
C14_MarkerModes ==
    /\ \A ym \in Months :
          LET t == MarkerTokens(ym)
              info == parse_xtrabackup_binlog_info(files, base_xb_info(ym))
          IN  /\ (info.mode = "gtid") = (Len(t) >= 3)
              /\ (info.mode = "pos") = (Len(t) = 2)
              /\ (info.mode = "none") = (Len(t) < 2)
              /\ info.mode = "gtid" =>
                    info.gtid_set = [i \in 1 .. Len(t) - 2 |-> t[i + 2]]
              /\ info.mode = "pos" => info.file = t[1] /\ info.pos = t[2]
    /\ (Restored /\ StepsOf("replay") # {}) =>
          LET t == MarkerTokens(last.ym)
          IN  /\ Len(last.cutover) = 1
              /\ last.info \in {"gtid", "pos"}
              /\ last.info = "gtid" =>
                    /\ Len(t) >= 3
                    /\ last.cutover[1] =
                          [opt |-> "--exclude-gtids",
                           val |-> [i \in 1 .. Len(t) - 2 |-> t[i + 2]]]
              /\ last.info = "pos" =>
                    /\ Len(t) = 2
                    /\ last.cutover[1] = [opt |-> "--start-position", val |-> <<t[2]>>]
    /\ (Restored /\ StepsOf("replay") = {}) => last.cutover = <<>>

\* C14 witness: a replay with a marker of four tokens: the exclusion set is
\* the last two
C14_Witness ==
    /\ Restored
    /\ StepsOf("replay") # {}
    /\ Len(MarkerTokens(last.ym)) = 4
    /\ Len(last.cutover) = 1
    /\ Len(last.cutover[1].val) = 2

\* C15: for every instant t and granularity g >= 1, floor_to_minutes(t, g) is
\* the greatest instant <= t that is a whole multiple of g minutes, with the
\* seconds zeroed, and flooring the result again returns it unchanged.
C15_FloorGreatestMultiple ==
    (last.cmd = "restore" /\ last.round >= 1) =>
        /\ last.target <= last.time
        /\ last.target % (last.round * SecondsPerMinute) = 0
        /\ last.time - last.target < last.round * SecondsPerMinute
        /\ last.target % SecondsPerMinute = 0
        /\ floor_to_minutes(last.target, last.round) = last.target

---------------------------------------------------------------------------
(* Properties of the exit code *)

\* the invocations of the command that exited non-zero
FailedSteps == {i \in 1 .. Len(last.steps) : last.steps[i].rc # 0}

\* the command met a planning error: no full backup for the series, or no
\* marker for the replay
PlanError ==
    \/ last.cmd \in {"restore", "backup-incr"} /\ base_raw(last.ym) \notin dirs
    \/ last.cmd = "restore" /\ last.need_pitr /\ last.info = "none"

---------------------------------------------------------------------------
(* Properties of a backup attempt *)

\* the chain rule the attempt breaks: a second full, or an incremental
\* without a full record
ChainViolation(cmd, mani) ==
    \/ cmd = "backup-full" /\ Fulls(mani) # {}
    \/ cmd = "backup-incr" /\ Fulls(mani) = {}

\* the manifests and the backup metadata among the files
ChainFiles(f) ==
    {x \in DOMAIN f : x.name \in {"manifest.json", "base/meta.json", "incr/meta.json"}}

\* C20: a backup-full or backup-incr that completes successfully changes the
\* manifest of its series only by appending one record, and an attempt that
\* fails (the snapshot tool exits non-zero, or the chain rule is violated)
\* leaves every manifest and the backup metadata unchanged.
C20_AppendOneOrNothing ==
    [][(last.cmd = "none" /\ last'.cmd \in {"backup-full", "backup-incr"}) =>
          LET old == read_json(files, manifest(last'.ym), <<>>)
              new == read_json(files', manifest(last'.ym), <<>>)
          IN  /\ last'.rc = 0 =>
                    /\ Len(new) = Len(old) + 1
                    /\ SubSeq(new, 1, Len(old)) = old
                    /\ \A x \in ChainFiles(files) :
                          (x.name = "manifest.json" /\ x # manifest(last'.ym))
                              => files'[x] = files[x]
              /\ (last'.rc # 0 \/ ChainViolation(last'.cmd, old)) =>
                    /\ ChainFiles(files') = ChainFiles(files)
                    /\ \A x \in ChainFiles(files) : files'[x] = files[x]]_vars

---------------------------------------------------------------------------
(* Properties of two writers *)

\* the record occurs in the manifest
InManifest(rec, mani) == \E i \in 1 .. Len(mani) : mani[i] = rec

\* both invocations have completed successfully on one series, each with a
\* record of its own
BothDone ==
    /\ DOMAIN procs = Writers
    /\ \A p \in Writers : procs[p].pc = "done" /\ procs[p].rc = 0
    /\ procs[1].ym = procs[2].ym
    /\ procs[1].rec # procs[2].rec

\* C19: nothing prevents a lost update: when both invocations have completed
\* successfully, the manifest holds the record of at least one of them, and it
\* holds both only if one of them read the manifest after the other had
\* written it; when both read before either wrote, one record is lost.
C19_LostUpdateUnlessSerial ==
    BothDone =>
        LET mani == Manifest(procs[1].ym)
        IN  /\ InManifest(procs[1].rec, mani) \/ InManifest(procs[2].rec, mani)
            /\ (InManifest(procs[1].rec, mani) /\ InManifest(procs[2].rec, mani))
                  = (\/ InManifest(procs[1].rec, procs[2].mem0)
                     \/ InManifest(procs[2].rec, procs[1].mem0))

\* C19 witness: a backup-full and a backup-incr on one series both returned 0
\* and the manifest holds only one of the two new records
C19_Witness ==
    /\ BothDone
    /\ {procs[1].cmd, procs[2].cmd} = {"backup-full", "backup-incr"}
    /\ Len(Manifest(procs[1].ym)) = 1
    /\ ~(/\ InManifest(procs[1].rec, Manifest(procs[1].ym))
         /\ InManifest(procs[2].rec, Manifest(procs[1].ym)))

---------------------------------------------------------------------------
(* Properties of the replay window *)

\* C21: whenever replay is required and the marker of the target's series
\* parses, the replay is run with the cutover taken from that marker (the
\* exclusion set in transaction-id mode, the start position in position mode)
\* and stops at the floored target; for a target strictly before every
\* incremental no incremental is applied and the replay starts from the marker.
C21_CutoverAndStop ==
    Restored =>
        LET t == MarkerTokens(last.ym)
            replayed == StepsOf("replay") # {}
            expected ==
                IF Len(t) >= 3
                THEN [opt |-> "--exclude-gtids",
                      val |-> [i \in 1 .. Len(t) - 2 |-> t[i + 2]]]
                ELSE [opt |-> "--start-position", val |-> <<t[2]>>]
        IN  /\ (last.need_pitr /\ Len(t) >= 2) => replayed
            /\ replayed =>
                  /\ last.marker = base_xb_info(last.ym)
                  /\ last.cutover = <<expected>>
                  /\ last.stop # NoStop
                  /\ last.stop.minute * SecondsPerMinute + last.stop.second
                        = last.target
                  /\ last.target = floor_to_minutes(last.time, last.round)
            /\ (\A ts \in IncrStamps(dirs, last.ym) :
                    last.target < strptime_iso(ts)) =>
                  /\ Applied = <<>>
                  /\ last.need_pitr
                  /\ Len(t) >= 2 => replayed /\ last.cutover = <<expected>>

\* C21 witness: incrementals exist, all after the target; the run applies none
\* and replays from the marker's exclusion set up to the floored target, the
\* requested instant lying off the rounding grid
C21_Witness ==
    /\ Restored
    /\ IncrStamps(dirs, last.ym) # {}
    /\ \A ts \in IncrStamps(dirs, last.ym) : last.target < strptime_iso(ts)
    /\ Applied = <<>>
    /\ StepsOf("replay") # {}
    /\ last.info = "gtid"
    /\ last.time # last.target
    /\ last.stop = strftime_seconds(last.target)

\* the stamps of the incremental records of a series' manifest
ManifestIncr(ym) ==
    {Manifest(ym)[i].ts : i \in {j \in 1 .. Len(Manifest(ym)) :
                                    Manifest(ym)[j].type = "incr"}}

\* C22: the incrementals a restore applies are exactly the incremental records
\* of the series' manifest with creation time <= target; an incremental whose
\* backup attempt failed, and which has no manifest record, is never applied.
C22_AppliesManifestRecords ==
    Restored =>
        {Applied[k] : k \in 1 .. Len(Applied)} =
            {ts \in ManifestIncr(last.ym) : strptime_iso(ts) <= last.target}

\* the instant up to which the restored physical state holds the transactions:
\* that of the last backup applied (the full backup when no incremental is)
PhysicalUpTo ==
    IF Applied = <<>> THEN CutoverTime(last.ym)
    ELSE strptime_iso(Applied[Len(Applied)])

\* the instant of the backup whose marker file the run read: the replay
\* excludes what that marker covers and nothing later
MarkerInstant(p) ==
    IF p = base_xb_info(p.ym) THEN CutoverTime(p.ym) ELSE strptime_iso(p.ts)

\* C23: a restore never replays a transaction that the restored physical state
\* (the full backup plus the selected incrementals) already holds: the marker
\* the replay starts from covers everything up to the last backup applied.
C23_NoDoubleApply ==
    (Restored /\ StepsOf("replay") # {} /\ Exists(files, base_meta(last.ym))) =>
        MarkerInstant(last.marker) >= PhysicalUpTo

\* the server's names of the segments in the source directory, in rotation
\* order; the marker of the runs names the second
BinlogNames ==
    <<"mysql-bin.000004", "mysql-bin.000005", "mysql-bin.000006", "mysql-bin.000007">>

\* the segments an artifact list replays, by the server's names, in order
ReplayedNames == [i \in 1 .. Len(last.sources) |-> BinlogNames[last.sources[i].ts]]

\* the place of a file name in the rotation order (0: not a segment)
RotationOrder(file) ==
    IF \E n \in 1 .. Len(BinlogNames) : BinlogNames[n] = file
    THEN CHOOSE n \in 1 .. Len(BinlogNames) : BinlogNames[n] = file
    ELSE 0

\* C24: in position mode the replay starts strictly after the marker's (file,
\* offset): no segment that precedes the marker's file in rotation order is
\* replayed, and the offset, which the replay tool applies to the head of its
\* input, falls in the marker's file.
C24_PositionStartsAtMarkerFile ==
    (Restored /\ StepsOf("replay") # {} /\ last.info = "pos") =>
        LET file == MarkerTokens(last.ym)[1]
        IN  /\ \A i \in 1 .. Len(ReplayedNames) :
                  RotationOrder(ReplayedNames[i]) >= RotationOrder(file)
            /\ ReplayedNames # <<>> => ReplayedNames[1] = file

---------------------------------------------------------------------------
(* Properties of shipping across months *)

\* the months under which a source segment has an archived artifact
ArchivedUnder(seq) ==
    {p.ym : p \in {q \in DOMAIN files :
                      q.area = "binlogs" /\ q.name = "mysql-bin.gz" /\ q.ts = seq}}

\* the months whose index holds an entry of a source segment
IndexedUnder(seq) ==
    {p.ym : p \in {q \in Indexes :
                      \E i \in 1 .. Len(files[q].doc.files) :
                          files[q].doc.files[i].file = gz_name(seq)}}

\* C25: after any sequence of shipping runs, also runs in different calendar
\* months over the same source directory, each source segment is archived and
\* indexed under one month only.
C25_OneBucketPerSegment ==
    \A seq \in DOMAIN source :
        /\ Cardinality(ArchivedUnder(seq)) <= 1
        /\ Cardinality(IndexedUnder(seq)) <= 1

---------------------------------------------------------------------------
(* Properties of the manifest's timestamps *)

\* C26: every record of a series' manifest has a creation timestamp whose
\* calendar month is that series, also after commands given an explicit
\* --series.
C26_RecordMonthIsBucket ==
    \A ym \in ManifestSeries :
        \A i \in 1 .. Len(Manifest(ym)) :
            MonthOf(strptime_iso(Manifest(ym)[i].ts)) = ym

\* C27: within each series' manifest the creation timestamps are strictly
\* increasing in manifest order: a backup-incr within the minute of the record
\* before it adds no record.
C27_StampsStrictlyIncrease ==
    \A ym \in ManifestSeries :
        \A i \in 1 .. Len(Manifest(ym)) - 1 :
            Manifest(ym)[i].ts < Manifest(ym)[i + 1].ts

---------------------------------------------------------------------------
(* Properties of concurrent writers of one file *)

\* C28: also while two writers update the same manifest or index, the file is
\* at every moment a document that a writer serialized completely: a reader
\* never finds it partially written.
C28_NeverPartial ==
    \A p \in DOMAIN files :
        p.name \in {"manifest.json", "index.json"} => files[p].complete

---------------------------------------------------------------------------
(* Properties of the index's checksums *)

\* C30: after any sequence of shipping runs, in execute or dry-run mode, every
\* index entry whose archived artifact exists carries the checksum of that
\* artifact: no run replaces a recorded checksum with an empty or other value.
C30_ChecksumOfArtifact ==
    \A p \in Indexes :
        \A i \in 1 .. Len(files[p].doc.files) :
            LET e == files[p].doc.files[i]
                dst == dst_gz(p.ym, e.file.seq)
            IN  Exists(files, dst) => e.sha256 = sha256_file(files[dst].doc)

---------------------------------------------------------------------------
(* Properties of the event window's fallback *)

\* the pass of a run over its next segment, in execute mode
ExecPass(p) ==
    /\ p \in DOMAIN procs /\ p \in DOMAIN procs'
    /\ procs[p].cmd = "ship-binlogs" /\ procs[p].pc = "loop"
    /\ procs[p].todo # <<>>
    /\ procs[p].exec
    /\ procs'[p] # procs[p]

\* the pass found no executable of the decoder, or a segment without timestamp
NoWindow(p) ==
    \/ \E i \in 1 .. Len(NewSteps(p)) :
          NewSteps(p)[i].op = "verify" /\ NewSteps(p)[i].rc = ExecFailed
    \/ source[procs[p].todo[1]].first = NoTime

\* C29: when the decoder cannot be run, or the decoded segment holds no
\* timestamp, the pass still indexes the segment, with first_event_time and
\* last_event_time both the segment's modification time, and the run goes on
\* to the remaining segments.
C29_FallbackToMtime ==
    [][\A p \in DOMAIN procs :
          (ExecPass(p) /\ NoWindow(p)) =>
              LET seq == procs[p].todo[1]
              IN  /\ \E e \in IndexEntries(files', procs[p].ym) :
                        /\ e.file = gz_name(seq)
                        /\ e.first_event_time = source[seq].mtime
                        /\ e.last_event_time = source[seq].mtime
                  /\ procs'[p].pc = "loop"
                  /\ procs'[p].todo = Tail(procs[p].todo)]_vars

---------------------------------------------------------------------------
(* Properties of the replay's segment list *)

\* C31: the segment list passed to the replay is in strictly ascending
\* file-name (rotation) order and holds no segment twice, also when it draws
\* on the target's month and on the month after.
C31_SourcesAscending ==
    (Restored /\ StepsOf("replay") # {}) =>
        \A i, j \in 1 .. Len(last.sources) :
            i < j => last.sources[i].ts < last.sources[j].ts

---------------------------------------------------------------------------
(* Properties of restore's frame *)

\* the paths of the backup root: the series and the log archive
InRoot(q) == q.area \in {"series", "binlogs"}

\* a restore is run from the prompt
RestoreRuns == last.cmd = "none" /\ last'.cmd = "restore"

\* C32: a restore, in execute or dry-run mode, ending well or not, whose
\* working area lies outside the backup root leaves every manifest, backup
\* metadata, backup storage, marker, log index and archived segment as it was:
\* what it creates or removes lies in the working area.
C32_RestoreFrame ==
    [][(RestoreRuns /\ ~InRoot(last'.workdir)) =>
          /\ {q \in DOMAIN files' : InRoot(q)} = {q \in DOMAIN files : InRoot(q)}
          /\ \A q \in DOMAIN files : InRoot(q) => files'[q] = files[q]
          /\ {q \in dirs' : InRoot(q)} = {q \in dirs : InRoot(q)}
          /\ \A q \in (dirs' \ dirs) \cup (dirs \ dirs') : Inside(q, last'.workdir)
          /\ \A q \in DOMAIN files' : ~InRoot(q) => Inside(q, last'.workdir)]_vars

\* C32 witness: an execute-mode restore into a directory outside the backup
\* root, over a series with an incremental, a marker and an indexed archived
\* segment, one of whose steps exited non-zero; the working area is there
C32_Witness ==
    /\ Restored
    /\ last.exec
    /\ last.workdir = WorkOutside
    /\ WorkOutside \in dirs
    /\ FailedSteps # {}
    /\ Applied # <<>>
    /\ StepsOf("replay") # {}
    /\ last.sources # <<>>
    /\ IndexEntries(files, last.ym) # {}
    /\ Len(Manifest(last.ym)) >= 2

====
